---------------------------- MODULE Spec2Model ----------------------------
(***************************************************************************)
(* Model of the aircraft data worker (src/data-worker.js): the fusion of   *)
(* same-key reports, the proximity de-duplication, the 30 s cache and the  *)
(* message handlers that drive them; of the HTTP/3 client                  *)
(* (src/unnamed/part_001); and of the page's markers and polling intervals *)
(* (src/main.js).                                                          *)
(*                                                                         *)
(* JavaScript values are tagged records, so that a missing property        *)
(* (undefined), NaN, numbers and strings can sit in the same field:        *)
(*   [t |-> "number", n |-> 12, s |-> ""]   the number 12                  *)
(*   [t |-> "string", n |-> 0, s |-> "A"]   the string "A"                 *)
(* A property absent from a report reads as undefined, as in the code.     *)
(*                                                                         *)
(* Numbers are fixed point.  Every sampled numeric input is a multiple of  *)
(* Scale = 2^(MaxReports-1), so the halvings of (a + b) / 2 stay exact     *)
(* over a whole run of MaxReports reports.  Latitude and longitude count   *)
(* 1/Scale metres of arc from 0N 0E (one metre of arc is 1/6371000 rad).   *)
(* Confidence counts tenths (10 is 1.0), times in milliseconds.            *)
(***************************************************************************)
EXTENDS Integers, Sequences, FiniteSets, TLC

VARIABLES
    fReports,        \* fuseAircraftData: its argument
    fIdx,            \* fuseAircraftData: reports consumed by the forEach
    fusedMap,        \* fuseAircraftData: the Map, as <<[key, value]>> in insertion order
    fBranch,         \* which branch the last forEach callback took
    dInput,          \* removeDuplicates: its argument
    dIdx,            \* removeDuplicates: candidates consumed by the forEach
    uniqueAircraft,  \* removeDuplicates: the accepted entities, in order
    processedKeys,   \* removeDuplicates: the keys of the accepted entities
    dBranch,         \* which way the last candidate went
    aircraftCache,   \* the worker's cache: key -> entity
    now,             \* Date.now(), in ms since the worker started
    posted,          \* the messages the last step posted, in order
    wEvent,          \* the last step: a handler that ran, or a clock tick
    wThrew,          \* the last step's try block threw
    wEvicted,        \* the keys the last step's sweep removed
    wEmitted,        \* the keys of the entities the last step emitted
    pc,              \* where the running handler stands ("idle": call stack empty)
    inbox,           \* the worker's task queue: messages and timer callbacks
    wActive,         \* the number of processAircraftData calls begun and not ended
    wBoundary,       \* aircraftCache.size when the last updateCache ended
    wWaited,         \* what was going on when the task the last step ran was queued
    wRefData,        \* a snapshot chosen to be posted more than once
    wRefOut,         \* what the first cycle on wRefData emitted, if there was one
    wOnRef,          \* 0: the last cycle was not on wRefData; 1: it was the first on it; 2: a later one
    connections,     \* HTTP3Client: this.connections, id -> connection
    streams,         \* HTTP3Client: this.streams, id -> stream
    hSeq,            \* HTTP3Client: how many connection and stream ids were generated
    hPending,        \* HTTP3Client: the sendData and receiveData calls awaiting their fetch
    hOp,             \* HTTP3Client: the last operation and its argument
    aircraftMarkers, \* main.js: the Map aircraftMarkers, key -> marker
    mapMarkers,      \* main.js: the markers whose map is the map (not null)
    mSeq,            \* main.js: how many markers were constructed
    mCreated,        \* main.js: the markers the last updateAircraftDisplay constructed
    drvPc,           \* main.js: how far the page and its HTTP/3 data stream have come
    pollTimers,      \* main.js: the intervals of startDataCollection, each by its next due time
    lastCollect,     \* main.js: when collectDataFromSources was last called (-1: never)
    collectGap       \* main.js: the time between its last two calls (-1: fewer than two)

fuseVars == <<fReports, fIdx, fusedMap, fBranch>>
dedupVars == <<dInput, dIdx, uniqueAircraft, processedKeys, dBranch>>
workerVars == <<aircraftCache, now, posted, wEvent, wThrew, wEvicted, wEmitted>>

stepVars == <<pc, inbox, wActive, wBoundary, wWaited>>
runVars == <<wRefData, wRefOut, wOnRef>>

http3Vars == <<connections, streams, hSeq, hPending, hOp>>
displayVars == <<aircraftMarkers, mapMarkers, mSeq, mCreated>>
driverVars == <<drvPc, pollTimers, lastCollect, collectGap>>
clientVars == <<http3Vars, displayVars, driverVars>>

vars == <<fuseVars, dedupVars, workerVars, stepVars, runVars, clientVars>>

--------------------------------------------------------------------------
(* Bounds *)

\* Longest argument of fuseAircraftData.
MaxReports == 3

\* Longest argument of removeDuplicates.
MaxEntities == 3

\* The clock stops advancing here.
MaxNow == 62000

RECURSIVE Pow2(_)
Pow2(k) == IF k <= 0 THEN 1 ELSE 2 * Pow2(k - 1)

\* Fixed-point factor: MaxReports reports are averaged at most MaxReports-1 times.
Scale == Pow2(MaxReports - 1)

--------------------------------------------------------------------------
(* JavaScript values *)

UNDEF == [t |-> "undefined", n |-> 0, s |-> ""]
NAN == [t |-> "NaN", n |-> 0, s |-> ""]
Num(x) == [t |-> "number", n |-> x, s |-> ""]
Str(x) == [t |-> "string", n |-> 0, s |-> x]

IsNum(v) == v.t = "number"

\* ToBoolean
Truthy(v) ==
    \/ v.t = "string" /\ v.s # ""
    \/ v.t = "number" /\ v.n # 0

\* a || b
JsOr(a, b) == IF Truthy(a) THEN a ELSE b

\* a > b on numbers; false as soon as one side is undefined or NaN
JsGt(a, b) == IsNum(a) /\ IsNum(b) /\ a.n > b.n

\* a < b
JsLt(a, b) == IsNum(a) /\ IsNum(b) /\ a.n < b.n

\* a === b
JsStrictEq(a, b) == a.t # "NaN" /\ a = b

\* (a + b) / 2: NaN unless both are numbers
JsHalfSum(a, b) == IF IsNum(a) /\ IsNum(b) THEN Num((a.n + b.n) \div 2) ELSE NAN

\* a - b
JsMinus(a, b) == IF IsNum(a) /\ IsNum(b) THEN Num(a.n - b.n) ELSE NAN

--------------------------------------------------------------------------
(* Reports and fused entities *)

\* The properties fuseAircraftData reads from a report.
ReportFields == {"icao24", "callsign", "latitude", "longitude", "altitude",
                 "velocity", "heading", "origin", "destination", "source",
                 "priority", "timestamp"}

\* aircraft.icao24 || aircraft.callsign
KeyOfCallsignFirst(aircraft) == JsOr(aircraft.callsign, aircraft.icao24)
KeyOf(aircraft) == JsOr(aircraft.icao24, aircraft.callsign)

\* confidence: 1.0, in tenths
ConfidenceOne == 10

\* the 0.1 step, in tenths
ConfidenceStep == 1

\* Math.min(a, b)
MathMinUncapped(a, b) == b
MathMin(a, b) == IF a < b THEN a ELSE b

\* fusedMap.set(key, { icao24: aircraft.icao24, ..., confidence: 1.0 })
SeedEntity(aircraft) ==
    [icao24 |-> aircraft.icao24, callsign |-> aircraft.callsign,
     latitude |-> aircraft.latitude, longitude |-> aircraft.longitude,
     altitude |-> aircraft.altitude, velocity |-> aircraft.velocity,
     heading |-> aircraft.heading, origin |-> aircraft.origin,
     destination |-> aircraft.destination, source |-> aircraft.source,
     priority |-> aircraft.priority, timestamp |-> aircraft.timestamp,
     confidence |-> ConfidenceOne]

\* Object.assign(existing, aircraft): copies the properties the report has;
\* a property the report lacks keeps the existing value.
ObjectAssign(existing, aircraft) ==
    [f \in DOMAIN existing |->
        IF f \in ReportFields /\ aircraft[f] # UNDEF
        THEN aircraft[f] ELSE existing[f]]

\* if (aircraft.priority > existing.priority) { ... existing.confidence = 1.0 }
OverrideEntity(existing, aircraft) ==
    [ObjectAssign(existing, aircraft) EXCEPT !.confidence = ConfidenceOne]

\* else if (aircraft.priority === existing.priority) { average the data }
AverageEntityKeepHeading(existing, aircraft) ==
    [existing EXCEPT
        !.latitude = JsHalfSum(existing.latitude, aircraft.latitude),
        !.longitude = JsHalfSum(existing.longitude, aircraft.longitude),
        !.altitude = JsHalfSum(existing.altitude, aircraft.altitude),
        !.velocity = JsHalfSum(existing.velocity, aircraft.velocity),
        !.confidence = MathMin(ConfidenceOne, existing.confidence + ConfidenceStep)]
AverageEntity(existing, aircraft) ==
    [existing EXCEPT
        !.latitude = JsHalfSum(existing.latitude, aircraft.latitude),
        !.longitude = JsHalfSum(existing.longitude, aircraft.longitude),
        !.altitude = JsHalfSum(existing.altitude, aircraft.altitude),
        !.velocity = JsHalfSum(existing.velocity, aircraft.velocity),
        !.heading = JsHalfSum(existing.heading, aircraft.heading),
        !.confidence = MathMin(ConfidenceOne, existing.confidence + ConfidenceStep)]

\* Which branch of the merge a report takes against the existing entity.
MergeBranch(existing, aircraft) ==
    IF JsGt(aircraft.priority, existing.priority) THEN "override"
    ELSE IF JsStrictEq(aircraft.priority, existing.priority) THEN "average"
    ELSE "ignore"

\* if (aircraft.timestamp > existing.timestamp) existing.timestamp = aircraft.timestamp
UpdateTimestamp(existing, aircraft) ==
    IF JsGt(aircraft.timestamp, existing.timestamp)
    THEN [existing EXCEPT !.timestamp = aircraft.timestamp]
    ELSE existing

\* The else branch of the forEach callback: merge, then the timestamp update.
MergeEntityLowerAverages(existing, aircraft) ==
    LET b == MergeBranch(existing, aircraft)
        merged == IF b = "override" THEN OverrideEntity(existing, aircraft)
                  ELSE AverageEntity(existing, aircraft)
    IN UpdateTimestamp(merged, aircraft)
MergeEntity(existing, aircraft) ==
    LET b == MergeBranch(existing, aircraft)
        merged == IF b = "override" THEN OverrideEntity(existing, aircraft)
                  ELSE IF b = "average" THEN AverageEntity(existing, aircraft)
                  ELSE existing
    IN UpdateTimestamp(merged, aircraft)

\* fusedMap.has(key)
MapHas(m, key) == \E i \in 1..Len(m) : m[i].key = key

\* The position of key in the Map's insertion order.
MapIndex(m, key) == CHOOSE i \in 1..Len(m) : m[i].key = key

\* fusedMap.get(key)
MapGet(m, key) == m[MapIndex(m, key)].value

\* One call of the forEach callback of fuseAircraftData.
FuseOneSeedsKeyless(m, aircraft) ==
    LET key == KeyOf(aircraft)
    IN IF ~MapHas(m, key)
       THEN Append(m, [key |-> key, value |-> SeedEntity(aircraft)])
       ELSE [m EXCEPT ![MapIndex(m, key)].value = MergeEntity(@, aircraft)]
FuseOne(m, aircraft) ==
    LET key == KeyOf(aircraft)
    IN IF ~Truthy(key) THEN m
       ELSE IF ~MapHas(m, key)
            THEN Append(m, [key |-> key, value |-> SeedEntity(aircraft)])
            ELSE [m EXCEPT ![MapIndex(m, key)].value = MergeEntity(@, aircraft)]

\* The branch FuseOne takes: for the record of the last step.
FuseBranch(m, aircraft) ==
    LET key == KeyOf(aircraft)
    IN IF ~Truthy(key) THEN "drop"
       ELSE IF ~MapHas(m, key) THEN "seed"
            ELSE MergeBranch(MapGet(m, key), aircraft)

\* fuseAircraftData(aircraft): the forEach over the argument, from an empty Map.
RECURSIVE FuseFrom(_, _, _)
FuseFrom(m, reports, i) ==
    IF i > Len(reports) THEN m ELSE FuseFrom(FuseOne(m, reports[i]), reports, i + 1)

\* Array.from(fusedMap.values())
MapValues(m) == [i \in 1..Len(m) |-> m[i].value]

fuseAircraftData(reports) == MapValues(FuseFrom(<<>>, reports, 1))

--------------------------------------------------------------------------
(* removeDuplicates and calculateDistance *)

\* The integer square root, by bisection.
RECURSIVE ISqrtIn(_, _, _)
ISqrtIn(x, lo, hi) ==
    IF lo >= hi THEN lo
    ELSE LET mid == (lo + hi + 1) \div 2
         IN IF mid * mid <= x THEN ISqrtIn(x, mid, hi) ELSE ISqrtIn(x, lo, mid - 1)

ISqrt(x) == ISqrtIn(x, 0, 46340)

\* calculateDistance: the haversine distance R * c.  The coordinates count
\* 1/Scale metres of arc within a few kilometres of 0N 0E, where the
\* haversine distance is the Euclidean one to within 1e-7 of its value; the
\* result counts 1/Scale metres, rounded down.  NaN as soon as one
\* coordinate is no number.
calculateDistanceNaNAsZero(lat1, lon1, lat2, lon2) ==
    LET z(v) == IF IsNum(v) THEN v.n ELSE 0
    IN Num(ISqrt((z(lat2) - z(lat1)) * (z(lat2) - z(lat1))
                 + (z(lon2) - z(lon1)) * (z(lon2) - z(lon1))))
calculateDistance(lat1, lon1, lat2, lon2) ==
    IF IsNum(lat1) /\ IsNum(lon1) /\ IsNum(lat2) /\ IsNum(lon2)
    THEN Num(ISqrt((lat2.n - lat1.n) * (lat2.n - lat1.n)
                   + (lon2.n - lon1.n) * (lon2.n - lon1.n)))
    ELSE NAN

\* The 1.0 km threshold, in 1/Scale metres.
DuplicateThreshold == Num(1000 * Scale)

\* uniqueAircraft.some(existing => calculateDistance(...) < 1.0)
IsDuplicateOfLast(unique, aircraft) ==
    /\ unique # <<>>
    /\ JsLt(calculateDistance(unique[Len(unique)].latitude, unique[Len(unique)].longitude,
                              aircraft.latitude, aircraft.longitude),
            DuplicateThreshold)
IsDuplicate(unique, aircraft) ==
    \E i \in 1..Len(unique) :
        JsLt(calculateDistance(unique[i].latitude, unique[i].longitude,
                               aircraft.latitude, aircraft.longitude),
             DuplicateThreshold)

\* Which way the forEach callback of removeDuplicates goes for a candidate.
DedupBranch(st, aircraft) ==
    LET key == KeyOf(aircraft)
    IN IF ~Truthy(key) \/ key \in st.keys THEN "skip"
       ELSE IF IsDuplicate(st.unique, aircraft) THEN "duplicate"
       ELSE "accept"

\* One call of the forEach callback of removeDuplicates, on the pair
\* [unique |-> uniqueAircraft, keys |-> processedKeys].
DedupOneMarkAlways(st, aircraft) ==
    LET b == DedupBranch(st, aircraft)
    IN IF b = "skip" THEN st
       ELSE IF b = "duplicate" THEN [st EXCEPT !.keys = @ \cup {KeyOf(aircraft)}]
       ELSE [unique |-> Append(st.unique, aircraft),
             keys |-> st.keys \cup {KeyOf(aircraft)}]
DedupOne(st, aircraft) ==
    IF DedupBranch(st, aircraft) = "accept"
    THEN [unique |-> Append(st.unique, aircraft),
          keys |-> st.keys \cup {KeyOf(aircraft)}]
    ELSE st

RECURSIVE DedupFrom(_, _, _)
DedupFrom(st, entities, i) ==
    IF i > Len(entities) THEN st
    ELSE DedupFrom(DedupOne(st, entities[i]), entities, i + 1)

removeDuplicates(entities) ==
    DedupFrom([unique |-> <<>>, keys |-> {}], entities, 1).unique

--------------------------------------------------------------------------
(* updateCache, processAircraftData, sendStats *)

\* const maxAge = 30000
maxAge == 30000

\* setInterval(..., 5000)
StatsInterval == 5000

\* let lastProcessTime = 0: never assigned again
lastProcessTime == 0

\* The cache is a function from keys to entities; <<>> is the empty Map.
CacheKeys(cache) == DOMAIN cache

\* if (now - value.timestamp > maxAge) aircraftCache.delete(key)
Expired(value, t) == JsGt(JsMinus(Num(t), value.timestamp), Num(maxAge))

\* The first loop of updateCache: remove old entries.
SweepExpired(cache, t) ==
    [k \in {k \in CacheKeys(cache) : ~Expired(cache[k], t)} |-> cache[k]]

\* aircraftCache.set(key, aircraft)
CacheSetMerge(cache, key, value) ==
    [k \in CacheKeys(cache) \cup {key} |->
        IF k # key THEN cache[k]
        ELSE IF key \in CacheKeys(cache)
             THEN [f \in DOMAIN value |->
                      IF f \in ReportFields /\ value[f] = UNDEF
                      THEN cache[key][f] ELSE value[f]]
             ELSE value]
CacheSet(cache, key, value) ==
    [k \in CacheKeys(cache) \cup {key} |-> IF k = key THEN value ELSE cache[k]]

\* The second loop of updateCache: add new entries.
RECURSIVE UpsertAll(_, _, _)
UpsertAll(cache, aircraft, i) ==
    IF i > Len(aircraft) THEN cache
    ELSE LET key == KeyOf(aircraft[i])
         IN UpsertAll(IF Truthy(key) THEN CacheSet(cache, key, aircraft[i]) ELSE cache,
                      aircraft, i + 1)

\* updateCache(aircraft), run at Date.now() = t
updateCacheUpsertFirst(cache, aircraft, t) ==
    SweepExpired(UpsertAll(cache, aircraft, 1), t)
updateCache(cache, aircraft, t) ==
    UpsertAll(SweepExpired(cache, t), aircraft, 1)

\* A slot of the snapshot (data.local, data.openSky, data.flightradar):
\* absent, or with an aircraft value that is truthy but no array
\* (forEach is not a function), or with a list.
AbsentSlot == [kind |-> "absent", aircraft |-> <<>>]
NotAListSlot == [kind |-> "notalist", aircraft |-> <<>>]
ListSlot(list) == [kind |-> "list", aircraft |-> list]

\* allAircraft.push({...aircraft, source: ..., priority: ...})
TagReportKeepsOwn(aircraft, source, prio) ==
    [aircraft EXCEPT !.source = IF @ = UNDEF THEN Str(source) ELSE @,
                     !.priority = IF @ = UNDEF THEN Num(prio) ELSE @]
TagReport(aircraft, source, prio) ==
    [aircraft EXCEPT !.source = Str(source), !.priority = Num(prio)]

TagAll(slot, source, prio) ==
    [i \in 1..Len(slot.aircraft) |-> TagReport(slot.aircraft[i], source, prio)]

\* The three blocks that fill allAircraft.
Flatten(data) ==
    TagAll(data.local, "local", 3) \o TagAll(data.openSky, "opensky", 2)
        \o TagAll(data.flightradar, "flightradar24", 1)

\* The try block throws: data is null (data.local of null), or a slot's
\* aircraft has no forEach.  Both happen while allAircraft is being filled.
ThrowsUnguarded(data) ==
    \/ data.isNull
    \/ \E slot \in {data.local, data.openSky, data.flightradar} :
           slot.kind \in {"notalist", "absent"}
Throws(data) ==
    \/ data.isNull
    \/ \E slot \in {data.local, data.openSky, data.flightradar} : slot.kind = "notalist"

\* const cleanedAircraft = removeDuplicates(fuseAircraftData(allAircraft))
CleanedAircraftSkipsCached(data) ==
    DedupFrom([unique |-> <<>>, keys |-> CacheKeys(aircraftCache)],
              fuseAircraftData(Flatten(data)), 1).unique
RECURSIVE MapOfCache(_, _)
MapOfCache(cache, S) ==
    IF S = {} THEN <<>>
    ELSE LET k == CHOOSE k \in S : TRUE
         IN <<[key |-> k, value |-> cache[k]]>> \o MapOfCache(cache, S \ {k})
CleanedAircraftCarried(data) ==
    removeDuplicates(MapValues(FuseFrom(MapOfCache(aircraftCache, CacheKeys(aircraftCache)),
                                        Flatten(data), 1)))
CleanedAircraft(data) == removeDuplicates(fuseAircraftData(Flatten(data)))

KeysOfList(aircraft) == {KeyOf(aircraft[i]) : i \in 1..Len(aircraft)}

\* A posted message { type, data }.  So that any two messages compare, each
\* is a record of the type, the entity list (data of 'aircraftData', else
\* empty) and the numeric fields of data as a set of <<name, value>> (data
\* of 'systemStats', else empty).  The fields latency (of a cycle), fps,
\* dataSource and connected are not modelled.
AircraftDataMsg(list) == [type |-> "aircraftData", aircraft |-> list, stats |-> {}]
CycleStatsMsgSwapped(list, cache) ==
    [type |-> "systemStats", aircraft |-> <<>>,
     stats |-> {<<"processedCount", Cardinality(CacheKeys(cache))>>,
                <<"cacheSize", Len(list)>>}]
CycleStatsMsg(list, cache) ==
    [type |-> "systemStats", aircraft |-> <<>>,
     stats |-> {<<"processedCount", Len(list)>>,
                <<"cacheSize", Cardinality(CacheKeys(cache))>>}]
ErrorMsg == [type |-> "error", aircraft |-> <<>>, stats |-> {}]
StatsMsg(cache, t) ==
    [type |-> "systemStats", aircraft |-> <<>>,
     stats |-> {<<"latency", t - lastProcessTime>>,
                <<"cacheSize", Cardinality(CacheKeys(cache))>>,
                <<"lastUpdate", t>>}]

\* case 'processData': processAircraftData(data), the whole handler.
ProcessDataSweepOutsideTry(data) ==
    /\ wEvent' = "processData"
    /\ wThrew' = Throws(data)
    /\ wEvicted' = CacheKeys(aircraftCache) \ CacheKeys(SweepExpired(aircraftCache, now))
    /\ IF Throws(data)
       THEN /\ posted' = <<ErrorMsg>>
            /\ wEmitted' = {}
            /\ aircraftCache' = SweepExpired(aircraftCache, now)
       ELSE LET cleaned == CleanedAircraft(data)
                cache == updateCache(aircraftCache, cleaned, now)
            IN /\ aircraftCache' = cache
               /\ posted' = <<AircraftDataMsg(cleaned), CycleStatsMsg(cleaned, cache)>>
               /\ wEmitted' = KeysOfList(cleaned)
    /\ UNCHANGED <<now, fuseVars, dedupVars, stepVars>>
    /\ UNCHANGED clientVars
ProcessData(data) ==
    /\ wEvent' = "processData"
    /\ wThrew' = Throws(data)
    /\ IF Throws(data)
       THEN /\ posted' = <<ErrorMsg>>
            /\ wEvicted' = {} /\ wEmitted' = {}
            /\ UNCHANGED aircraftCache
       ELSE LET cleaned == CleanedAircraft(data)
                cache == updateCache(aircraftCache, cleaned, now)
            IN /\ aircraftCache' = cache
               /\ wEvicted' = CacheKeys(aircraftCache) \ CacheKeys(SweepExpired(aircraftCache, now))
               /\ posted' = <<AircraftDataMsg(cleaned), CycleStatsMsg(cleaned, cache)>>
               /\ wEmitted' = KeysOfList(cleaned)
    /\ UNCHANGED <<now, fuseVars, dedupVars, stepVars>>
    /\ UNCHANGED clientVars

\* sendStats()
SendStats ==
    /\ posted' = <<StatsMsg(aircraftCache, now)>>
    /\ wThrew' = FALSE /\ wEvicted' = {} /\ wEmitted' = {}
    /\ UNCHANGED <<aircraftCache, now, fuseVars, dedupVars, runVars>>
    /\ UNCHANGED clientVars

\* case 'getStats': sendStats()
GetStats == wEvent' = "getStats" /\ SendStats /\ UNCHANGED stepVars

\* setInterval(() => { sendStats(); }, 5000): the callback runs between two
\* events, any time from 5 s after the worker started.
StatsTimer ==
    /\ now >= StatsInterval
    /\ wEvent' = "timer"
    /\ SendStats
    /\ UNCHANGED stepVars

--------------------------------------------------------------------------
(* Sampled reports *)

\* <<icao24, callsign>> of a report: keyed by icao24, keyed by callsign only
\* (the same key "A"), a second aircraft, and a report with neither.
IdA == <<Str("A"), Str("X")>>
IdACallsign == <<UNDEF, Str("A")>>
IdB == <<Str("B"), Str("A")>>
IdNone == <<UNDEF, UNDEF>>

\* source: 'local' / 'opensky' / 'flightradar24', with priority 3 / 2 / 1
SourceOfPriority(p) ==
    IF p = 3 THEN Str("local") ELSE IF p = 2 THEN Str("opensky") ELSE Str("flightradar24")

\* Three shapes of payload.  "newer" and "older" carry every property, as the
\* mock generator's reports do; "bare" is the shape fetchOpenSkyData builds,
\* which has no altitude, heading, destination or timestamp property.
Payloads == {"newer", "older", "bare"}

MkReport(id, payload, prio, t) ==
    [icao24 |-> id[1], callsign |-> id[2],
     latitude |-> IF payload = "newer" THEN Num(100 * Scale)
                  ELSE IF payload = "older" THEN Num(300 * Scale) ELSE Num(0),
     longitude |-> IF payload = "newer" THEN Num(2000 * Scale)
                   ELSE IF payload = "older" THEN Num(2020 * Scale) ELSE Num(0),
     altitude |-> IF payload = "newer" THEN Num(350 * Scale)
                  ELSE IF payload = "older" THEN Num(120 * Scale) ELSE UNDEF,
     velocity |-> IF payload = "newer" THEN Num(450 * Scale)
                  ELSE IF payload = "older" THEN Num(250 * Scale) ELSE Num(600 * Scale),
     heading |-> IF payload = "newer" THEN Num(359 * Scale)
                 ELSE IF payload = "older" THEN Num(1 * Scale) ELSE UNDEF,
     origin |-> IF payload = "newer" THEN Str("THR")
                ELSE IF payload = "older" THEN Str("IST") ELSE Str("Iran"),
     destination |-> IF payload = "newer" THEN Str("IKA")
                     ELSE IF payload = "older" THEN Str("DXB") ELSE UNDEF,
     source |-> SourceOfPriority(prio),
     priority |-> Num(prio),
     timestamp |-> IF payload = "bare" THEN UNDEF
                   ELSE IF payload = "newer" THEN Num(t) ELSE Num(t - 1)]

Priorities == {1, 2, 3}

\* The reports fuseAircraftData is tried on.
FuseSamples ==
    {MkReport(IdA, p, prio, 2) : p \in Payloads, prio \in Priorities}
    \cup {MkReport(IdACallsign, "older", prio, 2) : prio \in Priorities}
    \cup {MkReport(IdB, "newer", 2, 2), MkReport(IdNone, "newer", 3, 2)}

SeqsUpTo(S, n) == UNION {[1..k -> S] : k \in 0..n}

\* The lists a driver puts in the three slots at time t.  local and
\* flightradar carry full reports (a fresh one with timestamp t, a stale one
\* with timestamp t - 30001), openSky the reports without timestamp that
\* fetchOpenSkyData builds.  The priority a report itself carries (3) is
\* replaced by the slot's.
FreshA(t) == MkReport(IdA, "newer", 3, t)
StaleA(t) == MkReport(IdA, "older", 3, t - maxAge)
FreshB(t) == MkReport(IdB, "newer", 3, t)
StaleB(t) == MkReport(IdB, "older", 3, t - maxAge)
BareA == MkReport(IdA, "bare", 3, 0)
BareB == MkReport(IdB, "bare", 3, 0)
BareNone == MkReport(IdNone, "bare", 3, 0)

LocalSlots(t) ==
    {AbsentSlot, NotAListSlot, ListSlot(<<>>), ListSlot(<<FreshA(t)>>),
     ListSlot(<<StaleA(t), FreshA(t)>>)}
OpenSkySlots(t) ==
    {AbsentSlot, ListSlot(<<BareA>>), ListSlot(<<BareNone, BareB>>)}
FlightradarSlots(t) ==
    {AbsentSlot, NotAListSlot, ListSlot(<<StaleB(t)>>), ListSlot(<<FreshB(t), FreshA(t)>>)}

\* The data of a 'processData' message at time t: null, or an object.
Snapshots(t) ==
    {[isNull |-> TRUE, local |-> AbsentSlot, openSky |-> AbsentSlot,
      flightradar |-> AbsentSlot]}
    \cup {[isNull |-> FALSE, local |-> l, openSky |-> o, flightradar |-> f] :
             l \in LocalSlots(t), o \in OpenSkySlots(t), f \in FlightradarSlots(t)}

\* The clock advances between events: 30 s or 31 s at a time.
ClockSteps == {30000, 31000}

--------------------------------------------------------------------------
(* fuseAircraftData, one forEach callback per step *)

\* The parts of the state a specification does not use stay as they are here.
FuseIdle == fReports = <<>> /\ fIdx = 0 /\ fusedMap = <<>> /\ fBranch = "none"
DedupIdle ==
    /\ dInput = <<>> /\ dIdx = 0 /\ uniqueAircraft = <<>>
    /\ processedKeys = {} /\ dBranch = "none"

\* data: null
NullSnapshot ==
    [isNull |-> TRUE, local |-> AbsentSlot, openSky |-> AbsentSlot,
     flightradar |-> AbsentSlot]

StepIdle ==
    /\ pc = "idle" /\ inbox = <<>> /\ wActive = 0 /\ wBoundary = 0
    /\ wWaited = "no"

RunIdle == wRefData = NullSnapshot /\ wRefOut = <<>> /\ wOnRef = 0

\* new HTTP3Client(): both Maps empty, no id generated, no call awaiting.
Http3Idle ==
    /\ connections = <<>> /\ streams = <<>>
    /\ hSeq = [connection |-> 0, stream |-> 0]
    /\ hPending = {}
    /\ hOp = [op |-> "none", arg |-> 0]

\* let aircraftMarkers = new Map(): no marker yet.
DisplayIdle == aircraftMarkers = <<>> /\ mapMarkers = {} /\ mSeq = 0 /\ mCreated = {}

\* The page before the maps script calls initMap.
DriverIdle == drvPc = "loading" /\ pollTimers = <<>> /\ lastCollect = -1 /\ collectGap = -1

ClientIdle == Http3Idle /\ DisplayIdle /\ DriverIdle

WorkerIdle ==
    /\ aircraftCache = <<>> /\ now = 0
    /\ posted = <<>> /\ wEvent = "none" /\ wThrew = FALSE
    /\ wEvicted = {} /\ wEmitted = {}
    /\ StepIdle /\ RunIdle /\ ClientIdle

InitFuse ==
    /\ fReports \in SeqsUpTo(FuseSamples, MaxReports)
    /\ fIdx = 0
    /\ fusedMap = <<>>
    /\ fBranch = "none"
    /\ DedupIdle
    /\ WorkerIdle

FuseStep ==
    /\ fIdx < Len(fReports)
    /\ fIdx' = fIdx + 1
    /\ fusedMap' = FuseOne(fusedMap, fReports[fIdx + 1])
    /\ fBranch' = FuseBranch(fusedMap, fReports[fIdx + 1])
    /\ UNCHANGED <<fReports, dedupVars, workerVars, stepVars, runVars>>
    /\ UNCHANGED clientVars

NextFuse == FuseStep

SpecFuse == InitFuse /\ [][NextFuse]_vars

--------------------------------------------------------------------------
(* removeDuplicates, one forEach callback per step *)

\* Sampled positions <<latitude, longitude>>, in metres of arc: 11 m, 999 m
\* and 2000 m east of the first, one 990 m to its north-east, one with no
\* latitude, and one whose longitude is NaN (as an average with a missing
\* value is).
DedupPositions ==
    {<<Num(0), Num(0)>>, <<Num(0), Num(11 * Scale)>>, <<Num(0), Num(999 * Scale)>>,
     <<Num(0), Num(2000 * Scale)>>, <<Num(700 * Scale), Num(700 * Scale)>>,
     <<UNDEF, Num(0)>>, <<Num(0), NAN>>}

DedupKeys == {"A", "B", "C"}

\* A fused entity of key k at position pos.
MkEntity(k, pos) ==
    [SeedEntity(MkReport(<<Str(k), UNDEF>>, "newer", 3, 2))
        EXCEPT !.latitude = pos[1], !.longitude = pos[2]]

\* The entities removeDuplicates is tried on: each has a key, as every
\* entity fuseAircraftData returns has.
DedupSamples == {MkEntity(k, pos) : k \in DedupKeys, pos \in DedupPositions}

InitDedup ==
    /\ dInput \in SeqsUpTo(DedupSamples, MaxEntities)
    /\ dIdx = 0
    /\ uniqueAircraft = <<>>
    /\ processedKeys = {}
    /\ dBranch = "none"
    /\ FuseIdle
    /\ WorkerIdle

DedupStep ==
    /\ dIdx < Len(dInput)
    /\ dIdx' = dIdx + 1
    /\ LET st == DedupOne([unique |-> uniqueAircraft, keys |-> processedKeys],
                          dInput[dIdx + 1])
       IN uniqueAircraft' = st.unique /\ processedKeys' = st.keys
    /\ dBranch' = DedupBranch([unique |-> uniqueAircraft, keys |-> processedKeys],
                              dInput[dIdx + 1])
    /\ UNCHANGED <<dInput, fuseVars, workerVars, stepVars, runVars>>
    /\ UNCHANGED clientVars

NextDedup == DedupStep

SpecDedup == InitDedup /\ [][NextDedup]_vars

--------------------------------------------------------------------------
(* The worker: its message handler, its timer and the clock *)

Init ==
    /\ aircraftCache = <<>>
    /\ now = 0
    /\ posted = <<>>
    /\ wEvent = "none"
    /\ wThrew = FALSE
    /\ wEvicted = {}
    /\ wEmitted = {}
    /\ StepIdle
    /\ RunIdle
    /\ FuseIdle
    /\ DedupIdle
    /\ ClientIdle

OnProcessData == \E data \in Snapshots(now) : ProcessData(data) /\ UNCHANGED runVars

Tick ==
    /\ \E d \in ClockSteps : now + d <= MaxNow /\ now' = now + d
    /\ wEvent' = "tick"
    /\ posted' = <<>> /\ wThrew' = FALSE /\ wEvicted' = {} /\ wEmitted' = {}
    /\ UNCHANGED <<aircraftCache, fuseVars, dedupVars, stepVars, runVars>>
    /\ UNCHANGED clientVars

Next ==
    \/ OnProcessData
    \/ GetStats
    \/ StatsTimer
    \/ Tick

Spec == Init /\ [][Next]_vars

\* A cycle on a snapshot of the shape collectDataFromSources posts: an
\* object whose slots hold lists.
OnWellFormedData ==
    \E data \in Snapshots(now) : ~Throws(data) /\ ProcessData(data) /\ UNCHANGED runVars

\* The driver posts such a snapshot every second for as long as the page
\* lives (setInterval in startDataCollection) and time passes: successful
\* cycles keep running and the clock keeps advancing.
SpecLive == Spec /\ WF_vars(OnWellFormedData) /\ WF_vars(Tick)

--------------------------------------------------------------------------
(* The worker in small steps: the task queue, the event loop that runs one
   task at a time, and processAircraftData call by call *)

\* Most tasks waiting in the queue.
MaxInbox == 1

\* The snapshots posted here: null, one with no source, one with a local
\* aircraft, one with OpenSky and Flightradar24 lists.
StepSnapshots(t) ==
    {NullSnapshot,
     [isNull |-> FALSE, local |-> AbsentSlot, openSky |-> AbsentSlot,
      flightradar |-> AbsentSlot],
     [isNull |-> FALSE, local |-> ListSlot(<<FreshA(t)>>), openSky |-> AbsentSlot,
      flightradar |-> AbsentSlot],
     [isNull |-> FALSE, local |-> AbsentSlot, openSky |-> ListSlot(<<BareNone, BareB>>),
      flightradar |-> ListSlot(<<StaleB(t)>>)]}

\* A task of the queue: the message { type, data }, or the timer callback.
\* waited records what was going on when it was queued: nothing ("no"), a
\* cycle ("cycle"), or a cycle between the two loops of updateCache with the
\* cache smaller than before the sweep ("swept").
Task(type, data) ==
    [type |-> type, data |-> data,
     waited |-> IF pc = "idle" THEN "no"
                ELSE IF pc = "upsert" /\ Cardinality(CacheKeys(aircraftCache)) # wBoundary
                     THEN "swept" ELSE "cycle"]

\* What a step that posts nothing leaves in the record of the last step.
Quiet == posted' = <<>> /\ wThrew' = FALSE /\ wEvicted' = {} /\ wEmitted' = {}

Enqueue(task) ==
    /\ Len(inbox) < MaxInbox
    /\ inbox' = Append(inbox, task)
    /\ Quiet
    /\ UNCHANGED <<aircraftCache, now, pc, wActive, wBoundary, wWaited,
                   fuseVars, dedupVars, runVars>>
    /\ UNCHANGED clientVars

\* The page posts { type: 'processData', data }.
PostProcessData ==
    /\ wEvent' = "post"
    /\ \E data \in StepSnapshots(now) : Enqueue(Task("processData", data))

\* The page posts { type: 'getStats' }.
PostGetStats == wEvent' = "post" /\ Enqueue(Task("getStats", NullSnapshot))

\* The 5 s interval elapses: its callback is queued as a task.
TimerFires ==
    /\ now >= StatsInterval
    /\ wEvent' = "fire"
    /\ Enqueue(Task("timer", NullSnapshot))

\* The event loop takes the next task only when no handler is running:
\* the handlers are synchronous functions, with no await and no yield.
CallStackAny == TRUE
CallStackEmpty == pc = "idle"

\* self.onmessage, case 'processData': processAircraftData(data) begins.
\* allAircraft is filled in this step; a throw in it ends the cycle.
DispatchProcessData ==
    /\ CallStackEmpty
    /\ inbox # <<>> /\ Head(inbox).type = "processData"
    /\ inbox' = Tail(inbox)
    /\ wWaited' = Head(inbox).waited
    /\ wEvent' = "processData"
    /\ wEvicted' = {} /\ wEmitted' = {}
    /\ wThrew' = Throws(Head(inbox).data)
    /\ IF Throws(Head(inbox).data)
       THEN /\ posted' = <<ErrorMsg>>
            /\ UNCHANGED <<pc, wActive, fuseVars>>
       ELSE /\ posted' = <<>>
            /\ pc' = "fuse"
            /\ wActive' = wActive + 1
            /\ fReports' = Flatten(Head(inbox).data)
            /\ fIdx' = 0 /\ fusedMap' = <<>> /\ fBranch' = "none"
    /\ UNCHANGED <<aircraftCache, now, wBoundary, dedupVars, runVars>>
    /\ UNCHANGED clientVars

\* const fusedAircraft = fuseAircraftData(allAircraft)
CycleFuse ==
    /\ pc = "fuse"
    /\ pc' = "dedup"
    /\ fusedMap' = FuseFrom(<<>>, fReports, 1)
    /\ fIdx' = Len(fReports)
    /\ wEvent' = "cycle" /\ Quiet
    /\ UNCHANGED <<fReports, fBranch, aircraftCache, now, inbox, wActive, wBoundary,
                   wWaited, dedupVars, runVars>>
    /\ UNCHANGED clientVars

\* const cleanedAircraft = removeDuplicates(fusedAircraft)
CycleDedup ==
    /\ pc = "dedup"
    /\ pc' = "sweep"
    /\ dInput' = MapValues(fusedMap)
    /\ dIdx' = Len(fusedMap)
    /\ LET st == DedupFrom([unique |-> <<>>, keys |-> {}], MapValues(fusedMap), 1)
       IN uniqueAircraft' = st.unique /\ processedKeys' = st.keys
    /\ wEvent' = "cycle" /\ Quiet
    /\ UNCHANGED <<dBranch, aircraftCache, now, inbox, wActive, wBoundary, wWaited,
                   fuseVars, runVars>>
    /\ UNCHANGED clientVars

\* updateCache(cleanedAircraft), first loop
CycleSweep ==
    /\ pc = "sweep"
    /\ pc' = "upsert"
    /\ aircraftCache' = SweepExpired(aircraftCache, now)
    /\ wEvent' = "cycle"
    /\ posted' = <<>> /\ wThrew' = FALSE /\ wEmitted' = {}
    /\ wEvicted' = CacheKeys(aircraftCache) \ CacheKeys(SweepExpired(aircraftCache, now))
    /\ UNCHANGED <<now, inbox, wActive, wBoundary, wWaited, fuseVars, dedupVars, runVars>>
    /\ UNCHANGED clientVars

\* updateCache(cleanedAircraft), second loop
CycleUpsert ==
    /\ pc = "upsert"
    /\ pc' = "post"
    /\ aircraftCache' = UpsertAll(aircraftCache, uniqueAircraft, 1)
    /\ wBoundary' = Cardinality(CacheKeys(aircraftCache'))
    /\ wEvent' = "cycle" /\ Quiet
    /\ UNCHANGED <<now, inbox, wActive, wWaited, fuseVars, dedupVars, runVars>>
    /\ UNCHANGED clientVars

\* The two postMessage calls; processAircraftData returns and its locals die.
CyclePost ==
    /\ pc = "post"
    /\ pc' = "idle"
    /\ wActive' = wActive - 1
    /\ posted' = <<AircraftDataMsg(uniqueAircraft),
                   CycleStatsMsg(uniqueAircraft, aircraftCache)>>
    /\ wEmitted' = KeysOfList(uniqueAircraft)
    /\ wEvent' = "cycle" /\ wThrew' = FALSE /\ wEvicted' = {}
    /\ fReports' = <<>> /\ fIdx' = 0 /\ fusedMap' = <<>> /\ fBranch' = "none"
    /\ dInput' = <<>> /\ dIdx' = 0 /\ uniqueAircraft' = <<>>
    /\ processedKeys' = {} /\ dBranch' = "none"
    /\ UNCHANGED <<aircraftCache, now, inbox, wBoundary, wWaited, runVars>>
    /\ UNCHANGED clientVars

\* self.onmessage, case 'getStats', and the timer callback: sendStats().
DispatchStats ==
    /\ CallStackEmpty
    /\ inbox # <<>> /\ Head(inbox).type \in {"getStats", "timer"}
    /\ inbox' = Tail(inbox)
    /\ wWaited' = Head(inbox).waited
    /\ wEvent' = Head(inbox).type
    /\ SendStats
    /\ UNCHANGED <<pc, wActive, wBoundary>>

\* Time passes between two tasks (a cycle takes far less than a clock step).
StepTick == pc = "idle" /\ Tick

InitSteps == Init

NextSteps ==
    \/ PostProcessData
    \/ PostGetStats
    \/ TimerFires
    \/ DispatchProcessData
    \/ CycleFuse
    \/ CycleDedup
    \/ CycleSweep
    \/ CycleUpsert
    \/ CyclePost
    \/ DispatchStats
    \/ StepTick

SpecSteps == InitSteps /\ [][NextSteps]_vars

--------------------------------------------------------------------------
(* The worker, with one snapshot posted again and again *)

\* The time the replayed snapshots were built at: their fresh reports carry
\* it as timestamp, their stale ones a timestamp maxAge + 1 before it.
BuiltAt == maxAge

Snapshot(l, o, f) == [isNull |-> FALSE, local |-> l, openSky |-> o, flightradar |-> f]

\* The snapshots that are posted more than once: no source; every source
\* with an empty list; one report per key, B some 200 m from A; one report
\* per key and a keyless one, B some 2 km from A; the key A from all three
\* sources; the key A from OpenSky and Flightradar24.
RefSnapshots ==
    {Snapshot(AbsentSlot, AbsentSlot, AbsentSlot),
     Snapshot(ListSlot(<<>>), ListSlot(<<>>), ListSlot(<<>>)),
     Snapshot(ListSlot(<<FreshA(BuiltAt)>>), AbsentSlot, ListSlot(<<StaleB(BuiltAt)>>)),
     Snapshot(ListSlot(<<FreshA(BuiltAt)>>), ListSlot(<<BareNone, BareB>>), AbsentSlot),
     Snapshot(ListSlot(<<StaleA(BuiltAt), FreshA(BuiltAt)>>), ListSlot(<<BareA>>),
              ListSlot(<<FreshB(BuiltAt), FreshA(BuiltAt)>>)),
     Snapshot(AbsentSlot, ListSlot(<<BareA>>),
              ListSlot(<<FreshB(BuiltAt), FreshA(BuiltAt)>>))}

\* The data of the 'processData' messages of this specification.
RunSnapshots == RefSnapshots \cup {NullSnapshot}

InitRuns ==
    /\ aircraftCache = <<>> /\ now = 0
    /\ posted = <<>> /\ wEvent = "none" /\ wThrew = FALSE
    /\ wEvicted = {} /\ wEmitted = {}
    /\ wRefData \in RefSnapshots
    /\ wRefOut = <<>>
    /\ wOnRef = 0
    /\ StepIdle /\ FuseIdle /\ DedupIdle /\ ClientIdle

\* A cycle; wRefOut keeps the list emitted by the first cycle on wRefData.
RunCycle ==
    \E data \in RunSnapshots :
        /\ ProcessData(data)
        /\ wOnRef' = IF data # wRefData THEN 0 ELSE IF wRefOut = <<>> THEN 1 ELSE 2
        /\ wRefOut' = IF data = wRefData /\ wRefOut = <<>>
                      THEN <<posted'[1].aircraft>> ELSE wRefOut
        /\ UNCHANGED wRefData

RunTick == Tick

NextRuns == RunCycle \/ RunTick

SpecRuns == InitRuns /\ [][NextRuns]_vars

--------------------------------------------------------------------------
(* HTTP3Client (src/unnamed/part_001): its two Maps under createConnection,
   createStream, sendData, receiveData, closeStream, closeConnection and
   cleanupInactiveConnections *)

\* Most connection ids, stream ids and awaiting calls.
MaxConnections == 2
MaxStreams == 2
MaxPending == 1

\* const inactiveThreshold = 60000
inactiveThreshold == 60000

\* Map.prototype.set and Map.prototype.delete on a Map held as a function.
With(m, k, v) == [x \in DOMAIN m \cup {k} |-> IF x = k THEN v ELSE m[x]]
Without(m, k) == [x \in DOMAIN m \ {k} |-> m[x]]

\* The client: this.connections and this.streams.  A connection is its
\* lastActivity and the ids in its own streams Map (connection.streams holds
\* the very objects this.streams holds); a stream is its connectionId.  url,
\* response, options, status, createdAt and the stream's lastActivity are
\* not modelled.  Ids are generated in increasing order, never twice.
Client == [connections |-> connections, streams |-> streams]

Least(S) == CHOOSE x \in S : \A y \in S : x <= y

\* closeStream(streamId)
closeStreamClientOnly(cl, streamId) ==
    IF streamId \notin DOMAIN cl.streams THEN cl
    ELSE [cl EXCEPT !.streams = Without(@, streamId)]
closeStream(cl, streamId) ==
    IF streamId \notin DOMAIN cl.streams THEN cl
    ELSE LET connectionId == cl.streams[streamId].connectionId
         IN [connections |->
                 IF connectionId \in DOMAIN cl.connections
                 THEN [cl.connections EXCEPT ![connectionId].streams = @ \ {streamId}]
                 ELSE cl.connections,
             streams |-> Without(cl.streams, streamId)]

\* for (const streamId of connection.streams.keys()) this.closeStream(streamId):
\* the iterator is live, it visits the entries still in the Map, in
\* insertion order; todo holds the ids it has not reached.
RECURSIVE CloseStreamsFrom(_, _, _)
CloseStreamsFrom(cl, connectionId, todo) ==
    IF todo = {} THEN cl
    ELSE LET streamId == Least(todo)
         IN CloseStreamsFrom(
                IF streamId \in cl.connections[connectionId].streams
                THEN closeStream(cl, streamId) ELSE cl,
                connectionId, todo \ {streamId})

\* closeConnection(connectionId)
closeConnectionKeepsStreams(cl, connectionId) ==
    IF connectionId \notin DOMAIN cl.connections THEN cl
    ELSE [cl EXCEPT !.connections = Without(@, connectionId)]
closeConnection(cl, connectionId) ==
    IF connectionId \notin DOMAIN cl.connections THEN cl
    ELSE LET closed == CloseStreamsFrom(cl, connectionId,
                                        cl.connections[connectionId].streams)
         IN [closed EXCEPT !.connections = Without(@, connectionId)]

\* cleanupInactiveConnections(), run at Date.now() = t: a live iteration
\* over this.connections.entries().
Inactive(connection, t) == t - connection.lastActivity > inactiveThreshold

RECURSIVE CleanupFrom(_, _, _)
CleanupFrom(cl, t, todo) ==
    IF todo = {} THEN cl
    ELSE LET connectionId == Least(todo)
         IN CleanupFrom(
                IF /\ connectionId \in DOMAIN cl.connections
                   /\ Inactive(cl.connections[connectionId], t)
                THEN closeConnection(cl, connectionId) ELSE cl,
                t, todo \ {connectionId})

cleanupInactiveConnections(cl, t) == CleanupFrom(cl, t, DOMAIN cl.connections)

\* What an operation of the client leaves alone.
Http3Frame == UNCHANGED <<fuseVars, dedupVars, stepVars, runVars, aircraftCache,
                          posted, wEvent, wThrew, wEvicted, wEmitted, displayVars,
                          driverVars>>

\* createConnection(url): the fetch of either protocol has resolved and the
\* connection is set under a new id.
CreateConnection ==
    /\ hSeq.connection < MaxConnections
    /\ hSeq' = [hSeq EXCEPT !.connection = @ + 1]
    /\ connections' = With(connections, hSeq.connection + 1,
                           [lastActivity |-> now, streams |-> {}])
    /\ hOp' = [op |-> "createConnection", arg |-> hSeq.connection + 1]
    /\ UNCHANGED <<streams, hPending, now>>
    /\ Http3Frame

\* createStream(connectionId), with any id createConnection has returned:
\* it throws 'Connection not found' for a connection that was closed.
CreateStream ==
    \E connectionId \in 1..hSeq.connection :
        /\ hSeq.stream < MaxStreams
        /\ IF connectionId \in DOMAIN connections
           THEN /\ hSeq' = [hSeq EXCEPT !.stream = @ + 1]
                /\ connections' = [connections EXCEPT
                                       ![connectionId].streams = @ \cup {hSeq.stream + 1}]
                /\ streams' = With(streams, hSeq.stream + 1,
                                   [connectionId |-> connectionId])
                /\ hOp' = [op |-> "createStream", arg |-> hSeq.stream + 1]
           ELSE /\ hOp' = [op |-> "createStreamThrew", arg |-> connectionId]
                /\ UNCHANGED <<connections, streams, hSeq>>
        /\ UNCHANGED <<hPending, now>>
        /\ Http3Frame

\* sendData(streamId) and receiveData(streamId) up to their await: the
\* stream and its connection are looked up, and the fetch is sent.
BeginRequest ==
    \E streamId \in DOMAIN streams :
        /\ Cardinality(hPending) < MaxPending
        /\ streams[streamId].connectionId \in DOMAIN connections
        /\ hPending' = hPending \cup
               {[stream |-> streamId, connection |-> streams[streamId].connectionId]}
        /\ hOp' = [op |-> "request", arg |-> streamId]
        /\ UNCHANGED <<connections, streams, hSeq, now>>
        /\ Http3Frame

\* The fetch settles.  If it resolved, lastActivity is assigned on the two
\* objects looked up before the await: on the connection even if the stream
\* was closed meanwhile, on an object no Map holds if the connection was.
EndRequest ==
    \E r \in hPending, resolved \in BOOLEAN :
        /\ hPending' = hPending \ {r}
        /\ connections' = IF resolved /\ r.connection \in DOMAIN connections
                          THEN [connections EXCEPT ![r.connection].lastActivity = now]
                          ELSE connections
        /\ hOp' = [op |-> IF resolved THEN "response" ELSE "requestThrew", arg |-> r.stream]
        /\ UNCHANGED <<streams, hSeq, now>>
        /\ Http3Frame

\* closeStream(streamId), with any id createStream has returned.
CloseStream ==
    \E streamId \in 1..hSeq.stream :
        /\ connections' = closeStream(Client, streamId).connections
        /\ streams' = closeStream(Client, streamId).streams
        /\ hOp' = [op |-> "closeStream", arg |-> streamId]
        /\ UNCHANGED <<hSeq, hPending, now>>
        /\ Http3Frame

\* closeConnection(connectionId), with any id createConnection has returned.
CloseConnection ==
    \E connectionId \in 1..hSeq.connection :
        /\ connections' = closeConnection(Client, connectionId).connections
        /\ streams' = closeConnection(Client, connectionId).streams
        /\ hOp' = [op |-> "closeConnection", arg |-> connectionId]
        /\ UNCHANGED <<hSeq, hPending, now>>
        /\ Http3Frame

\* The 30 s interval of startCleanup, or any other caller.
CleanupInactiveConnections ==
    /\ connections' = cleanupInactiveConnections(Client, now).connections
    /\ streams' = cleanupInactiveConnections(Client, now).streams
    /\ hOp' = [op |-> "cleanup", arg |-> 0]
    /\ UNCHANGED <<hSeq, hPending, now>>
    /\ Http3Frame

\* Time passes between two operations.
Http3Tick ==
    /\ \E d \in ClockSteps : now + d <= MaxNow /\ now' = now + d
    /\ hOp' = [op |-> "tick", arg |-> 0]
    /\ UNCHANGED <<connections, streams, hSeq, hPending>>
    /\ Http3Frame

InitHttp3 == Init

NextHttp3 ==
    \/ CreateConnection
    \/ CreateStream
    \/ BeginRequest
    \/ EndRequest
    \/ CloseStream
    \/ CloseConnection
    \/ CleanupInactiveConnections
    \/ Http3Tick

SpecHttp3 == InitHttp3 /\ [][NextHttp3]_vars

--------------------------------------------------------------------------
(* updateAircraftDisplay (src/main.js): the markers on the map *)

\* Most markers constructed.
MaxMarkers == 8

IdCCallsign == <<UNDEF, Str("C")>>

\* The snapshots whose 'aircraftData' lists are displayed: the replayed
\* ones, and one with two reports that have a callsign and no icao24, the
\* aircraft some 2 km apart.
DisplaySnapshots ==
    RefSnapshots \cup
    {Snapshot(ListSlot(<<MkReport(IdACallsign, "newer", 3, BuiltAt)>>),
              ListSlot(<<MkReport(IdCCallsign, "bare", 3, 0)>>), AbsentSlot)}

\* The lists the worker posts for them: dataWorker.onmessage passes the data
\* of each 'aircraftData' message to updateAircraftDisplay.
DisplayLists == {CleanedAircraft(data) : data \in DisplaySnapshots}

Range(m) == {m[k] : k \in DOMAIN m}

\* aircraftData.forEach(aircraft => { new google.maps.Marker({ map: map });
\* aircraftMarkers.set(aircraft.icao24, marker) }): the i-th aircraft gets
\* marker first + i.
MarkerKey(aircraft) == aircraft.icao24

RECURSIVE SetMarkers(_, _, _, _)
SetMarkers(markers, aircraftData, first, i) ==
    IF i > Len(aircraftData) THEN markers
    ELSE SetMarkers(With(markers, MarkerKey(aircraftData[i]), first + i),
                    aircraftData, first, i + 1)

\* updateAircraftDisplay(aircraftData)
UpdateAircraftDisplay ==
    \E aircraftData \in DisplayLists :
        /\ mSeq + Len(aircraftData) <= MaxMarkers
        /\ mSeq' = mSeq + Len(aircraftData)
        /\ mCreated' = mSeq + 1 .. mSeq + Len(aircraftData)
        /\ mapMarkers' = (mapMarkers \ Range(aircraftMarkers)) \cup mCreated'
        /\ aircraftMarkers' = SetMarkers(<<>>, aircraftData, mSeq, 1)
        /\ UNCHANGED <<fuseVars, dedupVars, workerVars, stepVars, runVars, http3Vars,
                       driverVars>>

InitDisplay == Init

NextDisplay == UpdateAircraftDisplay

SpecDisplay == InitDisplay /\ [][NextDisplay]_vars

--------------------------------------------------------------------------
(* The driver (src/main.js): initMap, the HTTP/3 data stream and the
   polling intervals of startDataCollection *)

\* setInterval(() => { collectDataFromSources(); }, 1000)
PollInterval == 1000

\* The clock advances by at most this much at a time.
DriverStep == 500

DriverFrame == UNCHANGED <<fuseVars, dedupVars, stepVars, runVars, aircraftCache,
                           posted, wEvent, wThrew, wEvicted, wEmitted, http3Vars,
                           displayVars>>

\* startDataCollection(): one more interval, first due a second from now.
\* The id setInterval returns is dropped; no interval is ever cleared.
startDataCollection(timers, t) == Append(timers, t + PollInterval)

\* initMap(): initHTTP3Client() starts createDataConnection(), which awaits
\* its fetch; initDataWorker(); startDataCollection().
InitMap ==
    /\ drvPc = "loading"
    /\ drvPc' = "connecting"
    /\ pollTimers' = startDataCollection(pollTimers, now)
    /\ UNCHANGED <<lastCollect, collectGap, now>>
    /\ DriverFrame

\* createDataConnection(): createConnection and createStream have resolved;
\* startDataStreaming(dataStream.id) begins its loop.
ConnectionSucceeds ==
    /\ drvPc = "connecting"
    /\ drvPc' = "streaming"
    /\ UNCHANGED <<pollTimers, lastCollect, collectGap, now>>
    /\ DriverFrame

\* createDataConnection(): the fetch of the fallback connection rejected; the
\* catch block logs 'Falling back to regular data polling' and starts nothing.
ConnectionFails ==
    /\ drvPc = "connecting"
    /\ drvPc' = "polling"
    /\ UNCHANGED <<pollTimers, lastCollect, collectGap, now>>
    /\ DriverFrame

\* startDataStreaming: receiveData threw (the fetch rejected, the response
\* was not ok or not JSON, or the stream was cleaned up); the catch block
\* calls startDataCollection().
StreamingError ==
    /\ drvPc = "streaming"
    /\ drvPc' = "polling"
    /\ pollTimers' = startDataCollection(pollTimers, now)
    /\ UNCHANGED <<lastCollect, collectGap, now>>
    /\ DriverFrame

\* An interval is due: its callback calls collectDataFromSources(), which
\* posts a snapshot to the worker, and the interval is due again a second
\* after it was.
PollTimerFires ==
    \E i \in 1..Len(pollTimers) :
        /\ pollTimers[i] <= now
        /\ \A j \in 1..Len(pollTimers) : pollTimers[i] <= pollTimers[j]
        /\ pollTimers' = [pollTimers EXCEPT ![i] = @ + PollInterval]
        /\ lastCollect' = now
        /\ collectGap' = IF lastCollect = -1 THEN -1 ELSE now - lastCollect
        /\ UNCHANGED <<drvPc, now>>
        /\ DriverFrame

\* Time passes, up to the next due time: a due callback runs first.
DueSoon(t) == {pollTimers[i] : i \in 1..Len(pollTimers)} \cap (t + 1 .. t + DriverStep)

DriverTick ==
    /\ \A i \in 1..Len(pollTimers) : pollTimers[i] > now
    /\ now' = IF DueSoon(now) = {} THEN now + DriverStep ELSE Least(DueSoon(now))
    /\ now' <= MaxNow
    /\ UNCHANGED driverVars
    /\ DriverFrame

InitDriver == Init

NextDriver ==
    \/ InitMap
    \/ ConnectionSucceeds
    \/ ConnectionFails
    \/ StreamingError
    \/ PollTimerFires
    \/ DriverTick

SpecDriver == InitDriver /\ [][NextDriver]_vars

--------------------------------------------------------------------------
(* Properties of fuseAircraftData (checked under SpecFuse) *)

\* The forEach is over and the Map holds the function's result.
FuseDone == fIdx = Len(fReports)

\* The key of a report or of an entity, read off its two identifier fields.
IdentityOf(r) == IF Truthy(r.icao24) THEN r.icao24 ELSE r.callsign

\* The indices of the consumed reports grouped under key k.
ReportsOfKey(k) ==
    {j \in 1..fIdx : Truthy(IdentityOf(fReports[j])) /\ IdentityOf(fReports[j]) = k}

\* The report the last step consumed, and the entity under its key before
\* and after that step (read in an action formula).
Incoming == fReports[fIdx + 1]
ExistingBefore == MapGet(fusedMap, KeyOf(Incoming))
ExistingAfter == MapGet(fusedMap', KeyOf(Incoming))

\* The fields a merge may change besides confidence and timestamp.
AveragedFields == {"latitude", "longitude", "altitude", "velocity", "heading"}
MergeableFields == AveragedFields \cup {"origin", "destination"}

\* C1: two reports of one key with priorities 3 and 1, in either order, fuse
\* to a single entity whose latitude, longitude, altitude and heading are
\* those of the priority-3 report, with confidence 1.0.
C1_PriorityOverride ==
    (/\ FuseDone /\ Len(fReports) = 2
     /\ Truthy(KeyOf(fReports[1])) /\ KeyOf(fReports[1]) = KeyOf(fReports[2])
     /\ {fReports[1].priority, fReports[2].priority} = {Num(3), Num(1)})
    => LET hi == IF fReports[1].priority = Num(3) THEN fReports[1] ELSE fReports[2]
           e == fusedMap[1].value
       IN /\ Len(fusedMap) = 1
          /\ e.latitude = hi.latitude /\ e.longitude = hi.longitude
          /\ e.altitude = hi.altitude /\ e.heading = hi.heading
          /\ e.confidence = ConfidenceOne

\* C2: when fusion is over, each entity's timestamp is the maximum of the
\* timestamps of the reports of its key (stated for keys whose reports all
\* carry a numeric timestamp), whichever branch each report took.
C2_TimestampIsMax ==
    FuseDone =>
        \A i \in 1..Len(fusedMap) :
            LET ts == {fReports[j].timestamp : j \in ReportsOfKey(fusedMap[i].key)}
                got == fusedMap[i].value.timestamp
            IN (\A t \in ts : IsNum(t)) =>
                   /\ got \in ts
                   /\ \A t \in ts : t.n <= got.n

\* C8: the Map holds at most one entity per key, one for each key among the
\* consumed reports, and the key read off each entity (icao24 || callsign)
\* is the key it is stored under, also after an override copied the
\* incoming report's identifiers.
C8_OneEntityPerKey ==
    /\ \A i, j \in 1..Len(fusedMap) : fusedMap[i].key = fusedMap[j].key => i = j
    /\ \A i \in 1..Len(fusedMap) :
           /\ Truthy(fusedMap[i].key)
           /\ IdentityOf(fusedMap[i].value) = fusedMap[i].key
           /\ ReportsOfKey(fusedMap[i].key) # {}
    /\ \A j \in 1..fIdx :
           Truthy(IdentityOf(fReports[j])) =>
               \E i \in 1..Len(fusedMap) : fusedMap[i].key = IdentityOf(fReports[j])

\* C8 witness: an override has rewritten the identifiers of the entity of
\* key "A" (callsign copied from a callsign-only report, icao24 kept).
C8_Witness ==
    /\ fBranch = "override"
    /\ \E i \in 1..Len(fusedMap) :
           /\ fusedMap[i].key = Str("A")
           /\ fusedMap[i].value.icao24 = Str("A")
           /\ fusedMap[i].value.callsign = Str("A")

\* C9: after a report of strictly higher priority, every mergeable field of
\* the entity equals the incoming report's value for it, also a field the
\* report lacks, and confidence is 1.0.
C9_OverrideReplacesAll ==
    [][(FuseStep /\ FuseBranch(fusedMap, Incoming) = "override")
        => /\ \A f \in MergeableFields : ExistingAfter[f] = Incoming[f]
           /\ ExistingAfter.confidence = ConfidenceOne]_vars

\* m is the arithmetic mean of a and b (NaN when one of them is no number).
IsMean(a, b, m) ==
    IF IsNum(a) /\ IsNum(b) THEN IsNum(m) /\ 2 * m.n = a.n + b.n ELSE m = NAN

\* C10: after a report of equal priority, latitude, longitude, altitude,
\* velocity and heading are each the arithmetic mean of the existing and
\* the incoming value (heading linearly), and no field other than these,
\* confidence and timestamp changes.
C10_EqualPriorityAverages ==
    [][(FuseStep /\ FuseBranch(fusedMap, Incoming) = "average")
        => /\ \A f \in AveragedFields :
                  IsMean(ExistingBefore[f], Incoming[f], ExistingAfter[f])
           /\ \A f \in DOMAIN ExistingBefore \ (AveragedFields \cup {"confidence", "timestamp"}) :
                  ExistingAfter[f] = ExistingBefore[f]]_vars

\* C10 witness: headings 359 and 1 averaged to 180, longitudes 2000 and
\* 2020 to 2010.
C10_Witness ==
    /\ fBranch = "average"
    /\ \E i \in 1..Len(fusedMap) :
           /\ fusedMap[i].value.heading = Num(180 * Scale)
           /\ fusedMap[i].value.longitude = Num(2010 * Scale)

\* The last step merged a report into an existing entity of its key.
MergeStep ==
    /\ FuseStep
    /\ Truthy(KeyOf(Incoming))
    /\ MapHas(fusedMap, KeyOf(Incoming))

\* C11: after a report of strictly lower priority than the entity of its
\* key, every field of the entity but the timestamp, confidence included,
\* is as it was.
C11_LowerPriorityIgnored ==
    [][(MergeStep /\ JsLt(Incoming.priority, ExistingBefore.priority))
        => \A f \in DOMAIN ExistingBefore \ {"timestamp"} :
               ExistingAfter[f] = ExistingBefore[f]]_vars

\* C11 witness: a priority-3 entity has taken the newer timestamp of an
\* ignored report and kept its own position.
C11_Witness ==
    /\ fBranch = "ignore"
    /\ \E i \in 1..Len(fusedMap) :
           /\ fusedMap[i].value.priority = Num(3)
           /\ fusedMap[i].value.latitude = Num(300 * Scale)
           /\ fusedMap[i].value.timestamp = Num(2)
           /\ JsLt(fReports[fIdx].priority, Num(3))
           /\ fReports[fIdx].timestamp = Num(2)

\* C12: every entity's confidence lies in [0, 1]; it is 1.0 after a seed,
\* min(1.0, old + 0.1) after an equal-priority report and 1.0 after an
\* override.
C12_ConfidenceInUnitInterval ==
    [][FuseStep
        => /\ \A i \in 1..Len(fusedMap') :
                  fusedMap'[i].value.confidence \in 0..ConfidenceOne
           /\ FuseBranch(fusedMap, Incoming) \in {"seed", "override"}
                  => ExistingAfter.confidence = ConfidenceOne
           /\ (MergeStep /\ JsStrictEq(Incoming.priority, ExistingBefore.priority))
                  => /\ ExistingAfter.confidence >= ExistingBefore.confidence
                     /\ ExistingAfter.confidence <= ConfidenceOne
                     /\ \/ ExistingAfter.confidence = ConfidenceOne
                        \/ ExistingAfter.confidence
                               = ExistingBefore.confidence + ConfidenceStep]_vars

\* C12 witness: an entity corroborated twice at equal priority is still at
\* confidence 1.0.
C12_Witness ==
    /\ fIdx = 3 /\ fBranch = "average"
    /\ FuseBranch(<<>>, fReports[1]) = "seed"
    /\ FuseBranch(FuseOne(<<>>, fReports[1]), fReports[2]) = "average"
    /\ Len(fusedMap) = 1
    /\ fusedMap[1].value.confidence = ConfidenceOne

\* The reports that have a key, in the order of the list.
RECURSIVE WithKey(_)
WithKey(reports) ==
    IF reports = <<>> THEN <<>>
    ELSE (IF Truthy(IdentityOf(Head(reports))) THEN <<Head(reports)>> ELSE <<>>)
             \o WithKey(Tail(reports))

\* C13: a report with neither icao24 nor callsign leaves the Map as it is,
\* and the result of the whole batch is the result of the batch without
\* such reports; no entity is stored under a missing key.
C13_KeylessDiscarded ==
    /\ FuseDone => fusedMap = FuseFrom(<<>>, WithKey(fReports), 1)
    /\ \A i \in 1..Len(fusedMap) : Truthy(IdentityOf(fusedMap[i].value))
    /\ Len(fusedMap) <= Len(WithKey(SubSeq(fReports, 1, fIdx)))

\* C13 witness: a batch with a keyless report between two reports of other
\* keys has been fused.
C13_Witness ==
    /\ FuseDone /\ Len(fReports) = 3
    /\ ~Truthy(IdentityOf(fReports[2]))
    /\ Len(fusedMap) = 2

\* The orderings of n reports, and a list reordered by one of them.
Orderings(n) == {f \in [1..n -> 1..n] : \A i, j \in 1..n : f[i] = f[j] => i = j}
Reordered(reports, f) == [i \in 1..Len(reports) |-> reports[f[i]]]

\* The ordering keeps the reports of each key in their relative order.
KeepsOrderWithinKeys(reports, f) ==
    \A i, j \in 1..Len(reports) :
        (i < j /\ IdentityOf(reports[f[i]]) = IdentityOf(reports[f[j]])) => f[i] < f[j]

\* The fields of a fused entity that the order of arrival is asked not to change.
OrderFields == AveragedFields \cup {"priority", "confidence", "timestamp"}

\* The Maps m1 and m2 hold the same keys, with entities equal on fields.
SameEntities(m1, m2, fields) ==
    /\ {m1[i].key : i \in 1..Len(m1)} = {m2[i].key : i \in 1..Len(m2)}
    /\ \A i \in 1..Len(m1) :
           \A f \in fields : m1[i].value[f] = MapGet(m2, m1[i].key)[f]

\* C24, as stated: whatever the order the reports arrive in, the fused
\* entity of each key has the same latitude, longitude, altitude, velocity,
\* heading, priority, confidence and timestamp.
C24_AnyOrderSameEntities ==
    FuseDone =>
        \A f \in Orderings(Len(fReports)) :
            SameEntities(fusedMap, FuseFrom(<<>>, Reordered(fReports, f), 1), OrderFields)

\* C24, amended: the fused entity of each key is the same, in every field,
\* for all orderings that keep the reports of each key in their relative
\* order; and two reports of one key with equal priority, both with a
\* timestamp, give the same eight fields in either order.
C24_OrderAcrossKeysIrrelevant ==
    FuseDone =>
        /\ \A f \in Orderings(Len(fReports)) :
               KeepsOrderWithinKeys(fReports, f)
                   => SameEntities(fusedMap, FuseFrom(<<>>, Reordered(fReports, f), 1),
                                   DOMAIN SeedEntity(fReports[1]))
        /\ (/\ Len(fReports) = 2
            /\ Truthy(IdentityOf(fReports[1]))
            /\ IdentityOf(fReports[1]) = IdentityOf(fReports[2])
            /\ JsStrictEq(fReports[1].priority, fReports[2].priority)
            /\ IsNum(fReports[1].timestamp) /\ IsNum(fReports[2].timestamp))
               => SameEntities(fusedMap, FuseFrom(<<>>, <<fReports[2], fReports[1]>>, 1),
                               OrderFields)

\* C24 witness: a report of key B arrived between two equal-priority
\* reports of key A with different positions, which were averaged.
C24_Witness ==
    /\ FuseDone /\ Len(fReports) = 3
    /\ IdentityOf(fReports[1]) = Str("A") /\ IdentityOf(fReports[2]) = Str("B")
    /\ IdentityOf(fReports[3]) = Str("A")
    /\ fBranch = "average"
    /\ fReports[1].latitude # fReports[3].latitude
    /\ Len(fusedMap) = 2

--------------------------------------------------------------------------
(* Properties of removeDuplicates (checked under SpecDedup) *)

DedupDone == dIdx = Len(dInput)

\* Two entities lie strictly less than 1.0 km apart.
CloserThanOneKm(a, b) ==
    LET d == calculateDistance(a.latitude, a.longitude, b.latitude, b.longitude)
    IN IsNum(d) /\ d.n < 1000 * Scale

\* The indices among the first n candidates that the claim says are
\* accepted: those whose key no accepted earlier candidate has and that lie
\* within 1 km of no accepted earlier candidate.
RECURSIVE AcceptedAmong(_)
AcceptedAmong(n) ==
    IF n = 0 THEN {}
    ELSE LET A == AcceptedAmong(n - 1)
         IN IF /\ \A j \in A : IdentityOf(dInput[j]) # IdentityOf(dInput[n])
               /\ \A j \in A : ~CloserThanOneKm(dInput[j], dInput[n])
            THEN A \cup {n} ELSE A

\* The elements of seq at the indices in S, in the order of seq.
RECURSIVE SelectFrom(_, _, _)
SelectFrom(seq, S, i) ==
    IF i > Len(seq) THEN <<>>
    ELSE (IF i \in S THEN <<seq[i]>> ELSE <<>>) \o SelectFrom(seq, S, i + 1)

\* C7: removeDuplicates accepts a candidate exactly when its key has not
\* been accepted and no accepted entity is strictly less than 1.0 km away;
\* its output is the accepted candidates, in input order and unmodified.  Of
\* two entities of distinct keys 11 m apart only the first is output; two
\* that are 2 km apart are both output.
C7_DedupAcceptsExactly ==
    /\ uniqueAircraft = SelectFrom(dInput, AcceptedAmong(dIdx), 1)
    /\ processedKeys = {IdentityOf(dInput[j]) : j \in AcceptedAmong(dIdx)}
    /\ (DedupDone /\ Len(dInput) = 2
        /\ IdentityOf(dInput[1]) # IdentityOf(dInput[2])
        /\ dInput[1].latitude = Num(0) /\ dInput[1].longitude = Num(0)
        /\ dInput[2].latitude = Num(0))
       => /\ dInput[2].longitude = Num(11 * Scale) => uniqueAircraft = <<dInput[1]>>
          /\ dInput[2].longitude = Num(2000 * Scale) => uniqueAircraft = dInput

\* C7 witness: a run in which one candidate was discarded as a proximity
\* duplicate and a later one of the same key, far enough away, accepted.
C7_Witness ==
    /\ DedupDone /\ Len(dInput) = 3 /\ Len(uniqueAircraft) = 2
    /\ dBranch = "accept"
    /\ IdentityOf(dInput[2]) = IdentityOf(dInput[3])
    /\ IdentityOf(dInput[1]) # IdentityOf(dInput[2])
    /\ uniqueAircraft = <<dInput[1], dInput[3]>>

\* The latitude or the longitude of the entity is NaN.
NaNPositioned(e) == e.latitude = NAN \/ e.longitude = NAN

\* The candidate of the last step, and whether its key was accepted before.
Candidate == dInput[dIdx + 1]
KeyTaken == ~Truthy(KeyOf(Candidate)) \/ KeyOf(Candidate) \in processedKeys

\* C22: a candidate with a NaN coordinate is accepted whenever its key has
\* not been accepted; and a candidate is discarded as a proximity duplicate
\* only for an accepted entity that has both coordinates and lies less than
\* 1.0 km away, never for one with a NaN coordinate.
C22_NaNPositionNeverDuplicate ==
    [][DedupStep
          => /\ (NaNPositioned(Candidate) /\ ~KeyTaken)
                    => uniqueAircraft' = Append(uniqueAircraft, Candidate)
             /\ (~KeyTaken /\ uniqueAircraft' = uniqueAircraft)
                    => \E i \in 1..Len(uniqueAircraft) :
                           /\ ~NaNPositioned(uniqueAircraft[i])
                           /\ ~NaNPositioned(Candidate)
                           /\ CloserThanOneKm(uniqueAircraft[i], Candidate)]_vars

\* C22 witness: an entity with a NaN longitude was accepted second, after an
\* entity at its latitude, and a third entity was accepted after it.
C22_Witness ==
    /\ DedupDone /\ Len(uniqueAircraft) = 3
    /\ uniqueAircraft[2].longitude = NAN
    /\ uniqueAircraft[1].latitude = uniqueAircraft[2].latitude
    /\ IsNum(uniqueAircraft[3].longitude)

\* C23: the accepted entities have pairwise distinct keys, no two of them
\* are less than 1.0 km apart, and removeDuplicates applied to them returns
\* them unchanged.
C23_DedupOutputIsFixpoint ==
    /\ \A i, j \in 1..Len(uniqueAircraft) :
           i < j => /\ IdentityOf(uniqueAircraft[i]) # IdentityOf(uniqueAircraft[j])
                    /\ ~CloserThanOneKm(uniqueAircraft[i], uniqueAircraft[j])
    /\ removeDuplicates(uniqueAircraft) = uniqueAircraft

\* C23 witness: of three entities of distinct keys the one 11 m from the
\* first, coming last, was discarded; the two kept are 2 km apart.
C23_Witness ==
    /\ DedupDone /\ Len(dInput) = 3 /\ Len(uniqueAircraft) = 2
    /\ Cardinality({IdentityOf(dInput[i]) : i \in 1..3}) = 3
    /\ dInput[3].longitude = Num(11 * Scale)
    /\ uniqueAircraft[1].longitude = Num(0)
    /\ uniqueAircraft[2].longitude = Num(2000 * Scale)

--------------------------------------------------------------------------
(* Properties of the worker (checked under Spec and SpecLive) *)


\* The step is a cycle that fails / that succeeds.
FailedCycle == wEvent' = "processData" /\ wThrew'
GoodCycle == wEvent' = "processData" /\ ~wThrew'

MessageTypes(msgs) == [i \in 1..Len(msgs) |-> msgs[i].type]

\* The keys of the entities in the 'aircraftData' message of the step.
EmittedKeys(msgs) ==
    {IdentityOf(msgs[1].aircraft[i]) : i \in 1..Len(msgs[1].aircraft)}

\* now - timestamp <= maxAge, as JavaScript evaluates it at time t.
WithinMaxAge(value, t) == IsNum(value.timestamp) /\ t - value.timestamp.n <= maxAge

\* now - timestamp > maxAge, as JavaScript evaluates it at time t.
OlderThanMaxAge(value, t) == IsNum(value.timestamp) /\ t - value.timestamp.n > maxAge

\* C3: a cycle that fails posts exactly one 'error' message, no
\* 'aircraftData' and no 'systemStats', and leaves aircraftCache as it was.
C3_FailedCycleLeavesCache ==
    [][FailedCycle
          => /\ MessageTypes(posted') = <<"error">>
             /\ aircraftCache' = aircraftCache]_vars

\* C3 witness: a cycle has failed while the cache held an entry that the
\* sweep of a successful cycle would have removed.
C3_Witness ==
    /\ wEvent = "processData" /\ wThrew
    /\ MessageTypes(posted) = <<"error">>
    /\ \E k \in CacheKeys(aircraftCache) : OlderThanMaxAge(aircraftCache[k], now)

\* C4: the entries that survive the sweep of a cycle run at time now are
\* exactly the entries with now - timestamp <= 30000.
C4_SweepKeepsExactlyFresh ==
    [][GoodCycle
          => CacheKeys(aircraftCache) \ wEvicted'
                 = {k \in CacheKeys(aircraftCache) : WithinMaxAge(aircraftCache[k], now)}]_vars

\* C5: a cache entry whose key is no longer emitted does not stay for ever:
\* again and again its key is out of the cache, or was just emitted, or its
\* entry is not yet older than maxAge.
C5_EntriesEventuallyDestroyed ==
    \A k \in {Str("A"), Str("B")} :
        []<>(IF k \in CacheKeys(aircraftCache)
             THEN k \in wEmitted \/ WithinMaxAge(aircraftCache[k], now)
             ELSE TRUE)

\* C6: at the end of a successful cycle, a key whose previous entry was
\* older than maxAge and that the cycle did not emit is out of the cache,
\* and every key the cycle emitted is in it.
C6_SweepBeforeInsert ==
    [][GoodCycle
          => /\ \A k \in CacheKeys(aircraftCache) :
                    (OlderThanMaxAge(aircraftCache[k], now) /\ k \notin EmittedKeys(posted'))
                    => k \notin CacheKeys(aircraftCache')
             /\ \A k \in EmittedKeys(posted') : k \in CacheKeys(aircraftCache')]_vars

\* C6 witness: a cycle has evicted an expired key it did not emit and has
\* inserted an entity that was older than maxAge on arrival.
C6_Witness ==
    /\ wEvent = "processData"
    /\ MessageTypes(posted) = <<"aircraftData", "systemStats">>
    /\ \E k \in wEvicted : k \notin CacheKeys(aircraftCache)
    /\ \E k \in wEmitted :
           k \in CacheKeys(aircraftCache) /\ OlderThanMaxAge(aircraftCache[k], now)

\* C19: a successful cycle leaves under each key it emitted exactly the
\* entity it emitted, and under every other key of the cache the entry that
\* was there before; no other step changes the cache.  So each entry is the
\* entity of the most recent cycle that emitted its key.
C19_UpsertReplacesEntry ==
    [][IF GoodCycle
       THEN /\ \A i \in 1..Len(posted'[1].aircraft) :
                   LET e == posted'[1].aircraft[i]
                   IN /\ IdentityOf(e) \in CacheKeys(aircraftCache')
                      /\ aircraftCache'[IdentityOf(e)] = e
            /\ \A k \in CacheKeys(aircraftCache') \ EmittedKeys(posted') :
                   k \in CacheKeys(aircraftCache) /\ aircraftCache'[k] = aircraftCache[k]
       ELSE aircraftCache' = aircraftCache]_vars

\* C19 witness: a cycle has put an OpenSky entity without altitude under A
\* and has left the Flightradar24 entry of an earlier cycle under B.
C19_Witness ==
    /\ wEvent = "processData" /\ ~wThrew
    /\ wEmitted = {Str("A")}
    /\ aircraftCache[Str("A")].source = Str("opensky")
    /\ aircraftCache[Str("A")].altitude = UNDEF
    /\ Str("B") \in CacheKeys(aircraftCache)
    /\ aircraftCache[Str("B")].source = Str("flightradar24")

--------------------------------------------------------------------------
(* Properties of the worker in small steps (checked under SpecSteps) *)

\* The value of a numeric field of a 'systemStats' message.
StatOf(msg, name) == (CHOOSE q \in msg.stats : q[1] = name)[2]

\* C25 (checked under Spec): in the 'systemStats' message of every cycle that
\* succeeds, cacheSize >= processedCount: every emitted entity has a key, no
\* two emitted entities share a key, and each key is in the cache whose size
\* the message reports.
C25_CacheCoversEmitted ==
    [][GoodCycle =>
           LET list == posted'[1].aircraft
               stats == posted'[2]
           IN /\ MessageTypes(posted') = <<"aircraftData", "systemStats">>
              /\ StatOf(stats, "cacheSize") >= StatOf(stats, "processedCount")
              /\ StatOf(stats, "processedCount") = Len(list)
              /\ \A i \in 1..Len(list) :
                     /\ Truthy(KeyOf(list[i]))
                     /\ KeyOf(list[i]) \in CacheKeys(aircraftCache')
                     /\ \A j \in 1..Len(list) : KeyOf(list[i]) = KeyOf(list[j]) => i = j
              /\ StatOf(stats, "cacheSize") = Cardinality(CacheKeys(aircraftCache'))]_vars

\* C25 witness: a cycle has emitted two entities, one of them with no
\* timestamp within maxAge of now, and both are in the cache: processedCount
\* 2, cacheSize 2.
C25_Witness ==
    /\ wEvent = "processData" /\ ~wThrew
    /\ MessageTypes(posted) = <<"aircraftData", "systemStats">>
    /\ StatOf(posted[2], "processedCount") = 2
    /\ StatOf(posted[2], "cacheSize") = 2
    /\ \E i \in 1..Len(posted[1].aircraft) : ~WithinMaxAge(posted[1].aircraft[i], now)

\* C14: at most one processAircraftData call is in progress; a task is taken
\* from the queue only when none is; and aircraftCache changes only in the
\* first loop of updateCache (by the sweep) and in its second loop (by the
\* upsert of the cycle's entities), in that order within one call.
C14_CyclesNeverOverlap ==
    [][/\ wActive' \in {0, 1}
       /\ Len(inbox') < Len(inbox) => pc = "idle" /\ wActive = 0
       /\ aircraftCache' # aircraftCache
              => /\ wActive = 1
                 /\ \/ /\ pc = "sweep" /\ pc' = "upsert"
                       /\ aircraftCache' = SweepExpired(aircraftCache, now)
                    \/ /\ pc = "upsert" /\ pc' = "post"
                       /\ aircraftCache' = UpsertAll(aircraftCache, uniqueAircraft, 1)]_vars

\* C14 witness: a 'processData' message that arrived between the two loops
\* of a cycle's updateCache has waited, and its own cycle has now begun.
C14_Witness ==
    /\ wEvent = "processData" /\ wWaited = "swept"
    /\ pc = "fuse" /\ wActive = 1

\* C15: the cacheSize sendStats reports is the size the cache had when the
\* last updateCache ended (0 before the first), which is its size before the
\* next sweep starts.
C15_StatsAtCycleBoundary ==
    [][wEvent' \in {"getStats", "timer"}
          => /\ Len(posted') = 1 /\ posted'[1].type = "systemStats"
             /\ StatOf(posted'[1], "cacheSize") = wBoundary]_vars

\* C15 witness: a stats request queued while the cache was swept and not yet
\* refilled has been answered with the size after the refill.
C15_Witness ==
    /\ wEvent \in {"getStats", "timer"} /\ wWaited = "swept"
    /\ StatOf(posted[1], "cacheSize") = wBoundary
    /\ wBoundary > 0

\* C21: a successful cycle posts nothing until its updateCache has ended,
\* then 'aircraftData' followed by 'systemStats' and nothing more;
\* processedCount is the length of the posted list and cacheSize the size
\* of the cache as the sweep and the upsert left it.
C21_CyclePostsAfterUpdate ==
    [][/\ (wEvent' = "cycle" /\ pc # "post") => posted' = <<>>
       /\ (wEvent' = "cycle" /\ pc = "post")
              => /\ MessageTypes(posted') = <<"aircraftData", "systemStats">>
                 /\ posted'[1].aircraft = uniqueAircraft
                 /\ StatOf(posted'[2], "processedCount") = Len(posted'[1].aircraft)
                 /\ StatOf(posted'[2], "cacheSize") = Cardinality(CacheKeys(aircraftCache))
                 /\ StatOf(posted'[2], "cacheSize") = wBoundary
                 /\ aircraftCache' = aircraftCache
                 /\ pc' = "idle"]_vars

\* C21 witness: a cycle has emitted one entity into a cache that kept
\* another: processedCount 1, cacheSize 2.
C21_Witness ==
    /\ wEvent = "cycle" /\ pc = "idle"
    /\ MessageTypes(posted) = <<"aircraftData", "systemStats">>
    /\ StatOf(posted[2], "processedCount") = 1
    /\ StatOf(posted[2], "cacheSize") = 2

--------------------------------------------------------------------------
(* Properties of the cycle as a function of its snapshot (checked under
   SpecRuns) *)

\* The step is a cycle on wRefData that did not fail.
RefCycle == wEvent' = "processData" /\ wOnRef' > 0 /\ ~wThrew'

\* C16: every later cycle on a snapshot posts the 'aircraftData' list and
\* the processedCount that the first cycle on it posted, whatever the cache
\* held and whenever it ran.
C16_OutputFunctionOfSnapshot ==
    [][(RefCycle /\ wOnRef' = 2)
          => /\ posted'[1].aircraft = wRefOut[1]
             /\ StatOf(posted'[2], "processedCount") = Len(wRefOut[1])]_vars

\* C16 witness: the snapshot has been processed again, at a later time and
\* from a cache that holds a key the snapshot does not report.
C16_Witness ==
    /\ wEvent = "processData" /\ wOnRef = 2 /\ now >= maxAge
    /\ wRefOut # <<>> /\ wRefOut[1] # <<>>
    /\ posted[1].aircraft = wRefOut[1]
    /\ CacheKeys(aircraftCache) \ wEmitted # {}

\* No two reports of the snapshot have the same key.
SingleReportPerKey(data) ==
    LET all == WithKey(Flatten(data))
    IN \A i, j \in 1..Len(all) : IdentityOf(all[i]) = IdentityOf(all[j]) => i = j

\* C17: after a later cycle on a snapshot with one report per key, the
\* cache entry of each of its keys has the non-timestamp fields of the
\* entity the first cycle on it produced.
C17_RefusionIdempotent ==
    [][(RefCycle /\ wOnRef' = 2 /\ SingleReportPerKey(wRefData))
          => \A i \in 1..Len(wRefOut[1]) :
                 LET e == wRefOut[1][i]
                     k == IdentityOf(e)
                 IN /\ k \in CacheKeys(aircraftCache')
                    /\ \A f \in DOMAIN e \ {"timestamp"} : aircraftCache'[k][f] = e[f]]_vars

\* C17 witness: the second of two successive cycles on a one-report-per-key
\* snapshot (keys A and B) has run, and the cache holds both at confidence 1.0.
C17_Witness ==
    /\ wEvent = "processData" /\ wOnRef = 2
    /\ SingleReportPerKey(wRefData)
    /\ wEmitted = {Str("A"), Str("B")}
    /\ \A k \in wEmitted : aircraftCache[k].confidence = ConfidenceOne
    /\ aircraftCache[Str("A")].latitude = Num(100 * Scale)
    /\ aircraftCache[Str("B")].altitude = UNDEF

\* No known source is present, or every source that is has an empty list.
EmptySnapshot(data) ==
    /\ ~data.isNull
    /\ \A slot \in {data.local, data.openSky, data.flightradar} :
           slot.kind = "absent" \/ (slot.kind = "list" /\ slot.aircraft = <<>>)

\* C18: a cycle on a snapshot with no source, or with empty lists only,
\* does not fail; it posts an empty 'aircraftData' list and processedCount 0.
C18_EmptySnapshotSucceeds ==
    [][(wEvent' = "processData" /\ wOnRef' > 0 /\ EmptySnapshot(wRefData))
          => /\ ~wThrew'
             /\ MessageTypes(posted') = <<"aircraftData", "systemStats">>
             /\ posted'[1].aircraft = <<>>
             /\ StatOf(posted'[2], "processedCount") = 0]_vars

\* C18 witness: a cycle on a snapshot whose three sources hold empty lists
\* has posted an empty list while the cache held an entry.
C18_Witness ==
    /\ wEvent = "processData" /\ wOnRef > 0
    /\ wRefData.local = ListSlot(<<>>)
    /\ posted # <<>> /\ posted[1].type = "aircraftData" /\ posted[1].aircraft = <<>>
    /\ CacheKeys(aircraftCache) # {}

\* The priority of the slots, and the tagged reports of key k of one slot.
SlotPriority(name) == IF name = "local" THEN 3 ELSE IF name = "openSky" THEN 2 ELSE 1
SlotSource(name) ==
    IF name = "local" THEN "local" ELSE IF name = "openSky" THEN "opensky"
    ELSE "flightradar24"
SlotReports(data, name, k) ==
    SelectSeq([i \in 1..Len(data[name].aircraft) |->
                  [data[name].aircraft[i] EXCEPT !.source = Str(SlotSource(name)),
                                                 !.priority = Num(SlotPriority(name))]],
              LAMBDA r : IdentityOf(r) = k)

\* The reports of key k of the highest-priority source that reports k.
TopReports(data, k) ==
    IF SlotReports(data, "local", k) # <<>> THEN SlotReports(data, "local", k)
    ELSE IF SlotReports(data, "openSky", k) # <<>> THEN SlotReports(data, "openSky", k)
    ELSE SlotReports(data, "flightradar", k)

\* C20: the flattened reports carry the source and the priority of their
\* slot (3, 2, 1), not their own; and each emitted entity has the latitude,
\* longitude, altitude, velocity and heading that fusing only the reports of
\* its key from the highest-priority source reporting the key gives.
C20_TaggedByStaticPriority ==
    [][RefCycle
          => /\ \A name \in {"local", "openSky", "flightradar"} :
                    \A r \in {TagAll(wRefData[name], SlotSource(name), SlotPriority(name))[i] :
                                 i \in 1..Len(wRefData[name].aircraft)} :
                        r.priority = Num(SlotPriority(name)) /\ r.source = Str(SlotSource(name))
             /\ \A i \in 1..Len(posted'[1].aircraft) :
                    LET e == posted'[1].aircraft[i]
                        top == fuseAircraftData(TopReports(wRefData, IdentityOf(e)))
                    IN /\ Len(top) = 1
                       /\ e.priority = top[1].priority
                       /\ \A f \in AveragedFields : e[f] = top[1][f]]_vars

\* C20 witness: the key A came from all three sources; the emitted entity
\* has the mean position of the two local reports and priority 3.
C20_Witness ==
    /\ wEvent = "processData" /\ wOnRef > 0
    /\ Len(wRefData.local.aircraft) = 2 /\ wRefData.openSky.aircraft # <<>>
    /\ \E i \in 1..Len(posted[1].aircraft) :
           /\ IdentityOf(posted[1].aircraft[i]) = Str("A")
           /\ posted[1].aircraft[i].priority = Num(3)
           /\ posted[1].aircraft[i].latitude = Num(200 * Scale)

--------------------------------------------------------------------------
(* Properties of HTTP3Client (checked under SpecHttp3) *)

\* Every stream of this.streams is in the streams Map of its connection,
\* which is in this.connections; and every stream of a connection of
\* this.connections is in this.streams, under that connection's id.
MapsAgree(conns, strs) ==
    /\ \A s \in DOMAIN strs :
           /\ strs[s].connectionId \in DOMAIN conns
           /\ s \in conns[strs[s].connectionId].streams
    /\ \A c \in DOMAIN conns :
           \A s \in conns[c].streams : s \in DOMAIN strs /\ strs[s].connectionId = c

\* No trace of connection c is left in either Map.
Gone(c, conns, strs) ==
    c \notin DOMAIN conns /\ \A s \in DOMAIN strs : strs[s].connectionId # c

\* C26: after every operation of the client the two Maps agree;
\* closeConnection removes the connection with all of its streams, and so
\* does cleanupInactiveConnections for every connection whose lastActivity
\* is more than 60 s old, leaving the other connections as they were.
C26_StreamsMatchConnections ==
    [][/\ MapsAgree(connections', streams')
       /\ hOp'.op = "closeConnection" => Gone(hOp'.arg, connections', streams')
       /\ hOp'.op = "cleanup" =>
              \A c \in DOMAIN connections :
                  IF now - connections[c].lastActivity > inactiveThreshold
                  THEN Gone(c, connections', streams')
                  ELSE c \in DOMAIN connections' /\ connections'[c] = connections[c]]_vars

\* C26 witness: the cleanup has removed a connection that was idle for more
\* than 60 s together with its stream, and has kept a younger connection
\* and its stream.
C26_Witness ==
    /\ hOp.op = "cleanup"
    /\ hSeq = [connection |-> 2, stream |-> 2]
    /\ DOMAIN connections = {2} /\ DOMAIN streams = {2}
    /\ streams[2].connectionId = 2

--------------------------------------------------------------------------
(* Properties of updateAircraftDisplay (checked under SpecDisplay) *)

\* C27: after every call of updateAircraftDisplay the markers on the map
\* are exactly the markers constructed for the list of that call: every
\* marker of an earlier call is off the map, also those of entities without
\* icao24.
C27_OnlyCurrentMarkersOnMap == mapMarkers = mCreated

--------------------------------------------------------------------------
(* Properties of the driver (checked under SpecDriver) *)

\* C28: at most one interval of startDataCollection is active, whatever
\* the order of initMap, the connection's success or failure and a streaming
\* error, and collectDataFromSources is called a second after its previous
\* call.
C28_SinglePollingTimer ==
    /\ Len(pollTimers) <= 1
    /\ collectGap \in {-1, PollInterval}

==========================================================================
